---- MODULE Spec2Model ----
(***************************************************************************)
(* Model of workflow-run-history: summarizeHistory, getWorkflowRuns and    *)
(* WorkflowGroup, in the two versions the repository carries:              *)
(*   "index"    src/index.ts          (retry loop, unguarded report)       *)
(*   "part_000" src/unnamed/part_000  (single lookup, guarded report)      *)
(* The version is fixed per behaviour by the variable `variant`.           *)
(***************************************************************************)
EXTENDS Integers, Sequences, FiniteSets, TLC

VARIABLES
    variant,        \* which of the two source files is running
    argsOk,         \* github, context and core are all defined
    lookupAlwaysFails, \* environment: getWorkflowRun fails on every attempt
    lookupFailures, \* environment: otherwise, the failures before it succeeds
    ownerWorkflow,  \* environment: the workflow_id getWorkflowRun returns on success
    pc,             \* position of the summarizeHistory task
    attempts,       \* getWorkflowRun calls issued so far (counted up to AttemptCap)
    workflow_id,    \* summarizeHistory's local workflow_id
    chain,          \* position of the getWorkflowRuns(...).then(...) chain
    fetchedFor,     \* workflow_id passed to listWorkflowRuns
    pages,          \* number of pages the paginated source has yielded
    delivered,      \* the raw entries of those pages, in order
    workflowRuns,   \* getWorkflowRuns' local workflowRuns array
    errorLogged,    \* core.error was called
    groupedRuns,    \* the Map returned by getWorkflowRuns, in insertion order
    sink,           \* calls made on core.summary, in order
    queries,        \* getNthPercentileDuration calls made by the report
    group,          \* a WorkflowGroup's durations (percentile specification)
    asked,          \* the last percentile query: kind, argument
    answer          \* and its result

vars == <<variant, argsOk, lookupAlwaysFails, lookupFailures, ownerWorkflow, pc,
          attempts, workflow_id, chain, fetchedFor, pages, delivered, workflowRuns,
          errorLogged, groupedRuns, sink, queries, group, asked, answer>>

(***************************************************************************)
(* Bounds                                                                  *)
(***************************************************************************)
MaxLookupFailures == 2
MaxPages == 2
MaxEntries == 3
MaxGroup == 3

Variants == {"index", "part_000"}
AttemptCap == MaxLookupFailures + 1
WorkflowIds == {7}

\* JavaScript's undefined where a number is expected; durations are >= 0.
Undefined == -1

Min(a, b) == IF a < b THEN a ELSE b

SeqsUpTo(S, n) == UNION {[1..k -> S] : k \in 0..n}

(***************************************************************************)
(* The paginated source's entries                                          *)
(***************************************************************************)
NonTerminal == {"in_progress", "queued", "requested", "waiting", "pending"}

RawStatuses == {"completed", "queued"}
RawConclusions == {"undefined", "null", "success", "failure", "queued"}
\* <<created_at, updated_at>> in milliseconds since the epoch
RawTimes == {<<1000, 4999>>}

RawEntry == [status : RawStatuses, conclusion : RawConclusions, times : RawTimes]

(***************************************************************************)
(* Run Normalizer: the body of the inner for loop of getWorkflowRuns       *)
(***************************************************************************)
DurationSeconds(times) == (times[2] - times[1]) \div 1000

IsDropped(e) == e.conclusion = "undefined" \/ e.status \in NonTerminal

NormalizedRun(e, id) ==
    [id |-> id,
     status |-> IF e.conclusion # "null" THEN e.conclusion ELSE e.status,
     created_at |-> e.times[1],
     updated_at |-> e.times[2],
     durationSeconds |-> DurationSeconds(e.times)]

\* one page pushed onto workflowRuns; ids are the entries' positions in the source
RECURSIVE PushPage(_, _, _)
PushPage(runs, page, firstId) ==
    IF page = <<>> THEN runs
    ELSE PushPage(IF IsDropped(Head(page)) THEN runs
                  ELSE Append(runs, NormalizedRun(Head(page), firstId)),
                  Tail(page), firstId + 1)

(***************************************************************************)
(* Status Grouping Aggregator: workflowRuns.forEach(...) of getWorkflowRuns*)
(***************************************************************************)
HasKey(groups, status) == \E i \in 1..Len(groups) : groups[i].status = status

KeyIndex(groups, status) == CHOOSE i \in 1..Len(groups) : groups[i].status = status

\* an aggregator that creates the group of a new status without pushing the run
AddToGroups_NewGroupLeftEmpty(groups, run) ==
    IF HasKey(groups, run.status)
    THEN [groups EXCEPT ![KeyIndex(groups, run.status)].runs = Append(@, run)]
    ELSE Append(groups, [status |-> run.status, runs |-> <<>>])

AddToGroups(groups, run) ==
    LET withKey == IF HasKey(groups, run.status) THEN groups
                   ELSE Append(groups, [status |-> run.status, runs |-> <<>>])
        i == KeyIndex(withKey, run.status)
    IN  [withKey EXCEPT ![i].runs = Append(@, run)]

RECURSIVE GroupRuns(_, _)
GroupRuns(groups, runs) ==
    IF runs = <<>> THEN groups
    ELSE GroupRuns(AddToGroups(groups, Head(runs)), Tail(runs))

Keys(groups) == {groups[i].status : i \in 1..Len(groups)}

\* Map.get: the group, or a record without runs standing for undefined
NoGroup == [status |-> "undefined", runs |-> <<>>]

GetGroup(groups, status) ==
    IF HasKey(groups, status) THEN groups[KeyIndex(groups, status)] ELSE NoGroup

RECURSIVE TotalRuns(_)
TotalRuns(groups) ==
    IF groups = <<>> THEN 0 ELSE Len(Head(groups).runs) + TotalRuns(Tail(groups))

(***************************************************************************)
(* Percentile Group: class WorkflowGroup                                   *)
(***************************************************************************)
Durations(runs) == [i \in 1..Len(runs) |-> runs[i].durationSeconds]

\* comparator (a, b) => a - b in index.ts, (a, b) => b - a in part_000
Before(v, a, b) == IF v = "index" THEN a <= b ELSE a >= b

RECURSIVE InsertSorted(_, _, _)
InsertSorted(v, sorted, x) ==
    IF sorted = <<>> THEN <<x>>
    ELSE IF Before(v, x, Head(sorted)) THEN <<x>> \o sorted
    ELSE <<Head(sorted)>> \o InsertSorted(v, Tail(sorted), x)

RECURSIVE SortDurations(_, _)
SortDurations(v, ds) ==
    IF ds = <<>> THEN <<>>
    ELSE InsertSorted(v, SortDurations(v, Tail(ds)), Head(ds))

\* Math.floor((percentile / 100) * length), then the array read
getNthPercentileDuration(v, ds, percentile) ==
    LET sortedDurations == SortDurations(v, ds)
        index == (percentile * Len(sortedDurations)) \div 100
    IN  IF index < Len(sortedDurations) THEN sortedDurations[index + 1] ELSE Undefined

\* Array.findIndex: zero-based index of the first match, -1 without one
FindIndexAtLeast(sorted, d) ==
    IF \E i \in 1..Len(sorted) : sorted[i] >= d
    THEN (CHOOSE i \in 1..Len(sorted) :
             sorted[i] >= d /\ \A j \in 1..(i - 1) : sorted[j] < d) - 1
    ELSE 0 - 1

\* Math.ceil(num / den) for den > 0
CeilDiv(num, den) == 0 - ((0 - num) \div den)

getPercentileForDuration(v, ds, d) ==
    LET sortedDurations == SortDurations(v, ds)
        index == FindIndexAtLeast(sortedDurations, d)
    IN  CeilDiv(index * 100, Len(sortedDurations))

(***************************************************************************)
(* Report Assembler: the .then callback of summarizeHistory                *)
(***************************************************************************)
Heading(section, nums) ==
    [op |-> "addHeading", section |-> section, nums |-> nums, rows |-> <<>>]

Table(section, nums, rows) ==
    [op |-> "addTable", section |-> section, nums |-> nums, rows |-> rows]

Flush == [op |-> "write", section |-> "flush", nums |-> <<>>, rows |-> <<>>]

\* Math.round(num / den * 100) for num >= 0, den > 0
RoundPercent(num, den) == (200 * num + den) \div (2 * den)

RateHeading(success, failure) ==
    LET s == Len(success.runs)
        f == Len(failure.runs)
    IN  Heading("rate", <<RoundPercent(s, s + f), s, s + f>>)

\* the heading naming the run count, then the 99th/90th/50th table
PercentileSection(v, g) ==
    LET ds == Durations(g.runs)
    IN  <<Heading(g.status, <<Len(g.runs)>>),
          Table(g.status,
                <<getNthPercentileDuration(v, ds, 99),
                  getNthPercentileDuration(v, ds, 90),
                  getNthPercentileDuration(v, ds, 50)>>,
                <<>>)>>

PercentileQueries(g) ==
    [i \in 1..3 |-> [status |-> g.status,
                     percentile |-> <<99, 90, 50>>[i],
                     size |-> Len(g.runs)]]

\* one row per key of the Map; the percentage is kept as the fraction num/den:
\* (size / totalRuns) * 100 in index.ts, Math.ceil of it in part_000
BreakdownRows(v, groups, totalRuns) ==
    [i \in 1..Len(groups) |->
        LET size == Len(groups[i].runs)
        IN  IF v = "index"
            THEN [status |-> groups[i].status, num |-> size * 100, den |-> totalRuns]
            ELSE [status |-> groups[i].status,
                  num |-> CeilDiv(size * 100, totalRuns), den |-> 1]]

BreakdownSection(v, groups, totalRuns) ==
    <<Heading("breakdown", <<>>), Table("breakdown", <<>>, BreakdownRows(v, groups, totalRuns))>>

\* src/index.ts: no presence checks; reading .runs of undefined throws a TypeError
\* while the argument of the success-rate heading is evaluated
ReportIndex(groups) ==
    LET totalRuns == TotalRuns(groups)
        success == GetGroup(groups, "success")
        failure == GetGroup(groups, "failure")
        first == <<Heading("total", <<totalRuns>>)>>
    IN  IF success = NoGroup \/ failure = NoGroup
        THEN [calls |-> first, queries |-> <<>>, threw |-> TRUE]
        ELSE [calls |-> first \o <<RateHeading(success, failure)>>
                        \o PercentileSection("index", success)
                        \o PercentileSection("index", failure)
                        \o BreakdownSection("index", groups, totalRuns)
                        \o <<Flush>>,
              queries |-> PercentileQueries(success) \o PercentileQueries(failure),
              threw |-> FALSE]

\* an assembler that commits the report before the breakdown section
ReportPart000_WriteBeforeBreakdown(groups) ==
    LET totalRuns == TotalRuns(groups)
        success == GetGroup(groups, "success")
        failure == GetGroup(groups, "failure")
        rate == success # NoGroup /\ failure # NoGroup
        hasS == success # NoGroup
        hasF == failure # NoGroup
    IN  [calls |-> <<Heading("total", <<totalRuns>>)>>
                   \o (IF rate THEN <<RateHeading(success, failure)>> ELSE <<>>)
                   \o (IF hasS THEN PercentileSection("part_000", success) ELSE <<>>)
                   \o (IF hasF THEN PercentileSection("part_000", failure) ELSE <<>>)
                   \o <<Flush>>
                   \o (IF totalRuns > 0
                       THEN BreakdownSection("part_000", groups, totalRuns) ELSE <<>>),
         queries |-> (IF hasS THEN PercentileQueries(success) ELSE <<>>)
                     \o (IF hasF THEN PercentileQueries(failure) ELSE <<>>),
         threw |-> FALSE]

\* src/unnamed/part_000: every section behind its guard
ReportPart000(groups) ==
    LET totalRuns == TotalRuns(groups)
        success == GetGroup(groups, "success")
        failure == GetGroup(groups, "failure")
        rate == success # NoGroup /\ failure # NoGroup
                /\ Len(success.runs) + Len(failure.runs) > 0
        hasS == success # NoGroup /\ Len(success.runs) > 0
        hasF == failure # NoGroup /\ Len(failure.runs) > 0
    IN  [calls |-> <<Heading("total", <<totalRuns>>)>>
                   \o (IF rate THEN <<RateHeading(success, failure)>> ELSE <<>>)
                   \o (IF hasS THEN PercentileSection("part_000", success) ELSE <<>>)
                   \o (IF hasF THEN PercentileSection("part_000", failure) ELSE <<>>)
                   \o (IF totalRuns > 0
                       THEN BreakdownSection("part_000", groups, totalRuns) ELSE <<>>)
                   \o <<Flush>>,
         queries |-> (IF hasS THEN PercentileQueries(success) ELSE <<>>)
                     \o (IF hasF THEN PercentileQueries(failure) ELSE <<>>),
         threw |-> FALSE]

Report(v, groups) == IF v = "index" THEN ReportIndex(groups) ELSE ReportPart000(groups)

(***************************************************************************)
(* Initial states                                                          *)
(***************************************************************************)
NotAsked == [kind |-> "none", arg |-> 0]

Environment ==
    /\ variant \in Variants
    /\ argsOk \in BOOLEAN
    /\ \/ lookupAlwaysFails = TRUE /\ lookupFailures = 0
       \/ lookupAlwaysFails = FALSE /\ lookupFailures \in 0..MaxLookupFailures
    /\ ownerWorkflow \in WorkflowIds

Fresh ==
    /\ pc = "entry"
    /\ attempts = 0
    /\ workflow_id = 0
    /\ chain = "none"
    /\ fetchedFor = 0
    /\ pages = 0
    /\ delivered = <<>>
    /\ workflowRuns = <<>>
    /\ errorLogged = FALSE
    /\ groupedRuns = <<>>
    /\ sink = <<>>
    /\ queries = <<>>

Init ==
    /\ Environment
    /\ Fresh
    /\ group = <<>>
    /\ asked = NotAsked
    /\ answer = Undefined

(***************************************************************************)
(* summarizeHistory                                                        *)
(***************************************************************************)
pctVars == <<group, asked, answer>>
envVars == <<variant, argsOk, lookupAlwaysFails, lookupFailures, ownerWorkflow>>
fetchVars == <<pages, delivered, workflowRuns, errorLogged, groupedRuns>>

\* the call: the argument check, then the first getWorkflowRun is awaited
Call ==
    /\ pc = "entry"
    /\ IF argsOk
       THEN pc' = "lookup" /\ attempts' = 1
       ELSE pc' = "rejected" /\ attempts' = attempts
    /\ UNCHANGED <<envVars, workflow_id, chain, fetchedFor, fetchVars, sink, queries, pctVars>>

LookupWillFail == lookupAlwaysFails \/ attempts <= lookupFailures

\* getWorkflowRun resolves: workflow_id is set. index.ts leaves the loop, part_000
\* goes on to await fetchWorkflowYaml.  In index.ts getWorkflowRuns is then called
\* (running up to its first page request), .then is attached and the function returns.
LookupSucceeds ==
    /\ pc = "lookup"
    /\ ~LookupWillFail
    /\ workflow_id' = ownerWorkflow
    /\ IF variant = "index"
       THEN pc' = "returned" /\ chain' = "fetching" /\ fetchedFor' = workflow_id'
       ELSE pc' = "yaml" /\ UNCHANGED <<chain, fetchedFor>>
    /\ UNCHANGED <<envVars, attempts, fetchVars, sink, queries, pctVars>>

\* getWorkflowRun rejects: caught in index.ts (the timer is awaited), not in part_000
LookupFails ==
    /\ pc = "lookup"
    /\ LookupWillFail
    /\ pc' = IF variant = "index" THEN "backoff" ELSE "rejected"
    /\ UNCHANGED <<envVars, attempts, workflow_id, chain, fetchedFor, fetchVars, sink,
                   queries, pctVars>>

\* the 1000 ms timer fires: "retrying...", workflow_id is still 0, next lookup
BackoffElapsed ==
    /\ pc = "backoff"
    /\ pc' = "lookup"
    /\ attempts' = Min(attempts + 1, AttemptCap)
    /\ UNCHANGED <<envVars, workflow_id, chain, fetchedFor, fetchVars, sink, queries, pctVars>>

\* part_000: fetchWorkflowYaml settled (a name, or undefined after any failure);
\* the title heading, then getWorkflowRuns(...).then(...) and return
YamlFetched(named) ==
    /\ pc = "yaml"
    /\ sink' = Append(sink, Heading("title", IF named THEN <<>> ELSE <<workflow_id>>))
    /\ pc' = "returned"
    /\ chain' = "fetching"
    /\ fetchedFor' = workflow_id
    /\ UNCHANGED <<envVars, attempts, workflow_id, fetchVars, queries, pctVars>>

(***************************************************************************)
(* getWorkflowRuns                                                         *)
(***************************************************************************)
\* one iteration of the for await loop: a page arrives and is normalized
\* (only the first page of a listing can be empty)
FetchPage(page) ==
    /\ chain = "fetching"
    /\ pages < MaxPages
    /\ page # <<>> \/ pages = 0
    /\ pages' = pages + 1
    /\ delivered' = delivered \o page
    /\ workflowRuns' = PushPage(workflowRuns, page, Len(delivered) + 1)
    /\ UNCHANGED <<envVars, pc, attempts, workflow_id, chain, fetchedFor, errorLogged,
                   groupedRuns, sink, queries, pctVars>>

\* the iterator is exhausted: the runs are grouped and the Map is returned
FetchDone ==
    /\ chain = "fetching"
    /\ groupedRuns' = GroupRuns(<<>>, workflowRuns)
    /\ chain' = "grouped"
    /\ UNCHANGED <<envVars, pc, attempts, workflow_id, fetchedFor, pages, delivered, workflowRuns,
                   errorLogged, sink, queries, pctVars>>

\* the page request throws: core.error, then grouping of what was collected
FetchError ==
    /\ chain = "fetching"
    /\ errorLogged' = TRUE
    /\ groupedRuns' = GroupRuns(<<>>, workflowRuns)
    /\ chain' = "grouped"
    /\ UNCHANGED <<envVars, pc, attempts, workflow_id, fetchedFor, pages, delivered, workflowRuns,
                   sink, queries, pctVars>>

\* the .then callback
AssembleReport ==
    /\ chain = "grouped"
    /\ LET r == Report(variant, groupedRuns)
       IN  /\ sink' = sink \o r.calls
           /\ queries' = r.queries
           /\ chain' = IF r.threw THEN "thrown" ELSE "written"
    /\ UNCHANGED <<envVars, pc, attempts, workflow_id, fetchedFor, fetchVars, pctVars>>

Next ==
    \/ Call
    \/ LookupSucceeds
    \/ LookupFails
    \/ BackoffElapsed
    \/ \E named \in BOOLEAN : YamlFetched(named)
    \/ \E page \in SeqsUpTo(RawEntry, MaxEntries - Len(delivered)) : FetchPage(page)
    \/ FetchDone
    \/ FetchError
    \/ AssembleReport

Spec == Init /\ [][Next]_vars

\* every awaited promise settles and every timer fires
FairSpec == Spec /\ WF_vars(Next)

(***************************************************************************)
(* WorkflowGroup queried on its own: a group of runs, then any number of   *)
(* percentile queries on it                                                *)
(***************************************************************************)
DurationValues == {10, 20, 30}
ScenarioA == <<10, 20, 30, 40, 50, 60, 70, 80, 90, 100>>
Groups == (SeqsUpTo(DurationValues, MaxGroup) \ {<<>>}) \cup {ScenarioA}

InitPct ==
    /\ variant \in Variants
    /\ argsOk = TRUE
    /\ lookupAlwaysFails = FALSE
    /\ lookupFailures = 0
    /\ ownerWorkflow \in WorkflowIds
    /\ Fresh
    /\ group \in Groups
    /\ asked = NotAsked
    /\ answer = Undefined

AskNthPercentileDuration(percentile) ==
    /\ asked' = [kind |-> "nth", arg |-> percentile]
    /\ answer' = getNthPercentileDuration(variant, group, percentile)
    /\ UNCHANGED <<envVars, pc, attempts, workflow_id, chain, fetchedFor, fetchVars, sink,
                   queries, group>>

AskPercentileForDuration(durationSeconds) ==
    /\ asked' = [kind |-> "for", arg |-> durationSeconds]
    /\ answer' = getPercentileForDuration(variant, group, durationSeconds)
    /\ UNCHANGED <<envVars, pc, attempts, workflow_id, chain, fetchedFor, fetchVars, sink,
                   queries, group>>

NextPct ==
    \/ \E percentile \in 0..100 : AskNthPercentileDuration(percentile)
    \/ \E d \in DurationValues : AskPercentileForDuration(d)

SpecPercentile == InitPct /\ [][NextPct]_vars

(***************************************************************************)
(* Properties                                                              *)
(***************************************************************************)
Range(f) == {f[i] : i \in DOMAIN f}

RECURSIVE SumOf(_, _)
SumOf(f, n) == IF n = 0 THEN 0 ELSE f[n] + SumOf(f, n - 1)

\* zero-based position i of the ascending order of ds holds x
AtAscendingIndex(ds, x, i) ==
    /\ x \in Range(ds)
    /\ Cardinality({j \in DOMAIN ds : ds[j] < x}) <= i
    /\ i < Cardinality({j \in DOMAIN ds : ds[j] <= x})

Settled == chain \in {"grouped", "written", "thrown"}

RetainedIds ==
    {i \in 1..Len(delivered) :
        delivered[i].conclusion # "undefined" /\ delivered[i].status \notin NonTerminal}

GroupedIds ==
    UNION {{groupedRuns[g].runs[j].id : j \in 1..Len(groupedRuns[g].runs)} :
              g \in 1..Len(groupedRuns)}

\* the calls of the report proper (the title heading of part_000 precedes them)
ReportCalls == SelectSeq(sink, LAMBDA c : c.section # "title")

Tags(calls) == [i \in 1..Len(calls) |-> <<calls[i].op, calls[i].section>>]

\* the sections of the report in the order of the assembler, and when each is due
SectionOrder ==
    <<<<"addHeading", "total">>, <<"addHeading", "rate">>,
      <<"addHeading", "success">>, <<"addTable", "success">>,
      <<"addHeading", "failure">>, <<"addTable", "failure">>,
      <<"addHeading", "breakdown">>, <<"addTable", "breakdown">>,
      <<"write", "flush">>>>

SectionDue(tag) ==
    CASE tag[2] = "total" -> TRUE
      [] tag[2] = "rate" -> HasKey(groupedRuns, "success") /\ HasKey(groupedRuns, "failure")
      [] tag[2] = "success" -> HasKey(groupedRuns, "success")
      [] tag[2] = "failure" -> HasKey(groupedRuns, "failure")
      [] tag[2] = "breakdown" -> workflowRuns # <<>>
      [] tag[2] = "flush" -> TRUE

\* C1: if getWorkflowRun fails on every attempt, the resolver stops after finitely
\* many attempts and rejects summarizeHistory; it never retries forever.
C1_BoundedRetry == (argsOk /\ lookupAlwaysFails) ~> (pc = "rejected")

\* C2: when getWorkflowRun fails k times (k within the budget) and then succeeds,
\* summarizeHistory does not raise, uses the identifier of that first success, and
\* issues no lookup after it (k + 1 lookups in all).
C2_RetryThenSucceed ==
    (argsOk /\ ~lookupAlwaysFails) =>
        /\ pc # "rejected"
        /\ workflow_id # 0 =>
              /\ workflow_id = ownerWorkflow
              /\ attempts = lookupFailures + 1
              /\ pc \notin {"lookup", "backoff"}
        /\ chain # "none" => fetchedFor = ownerWorkflow

\* C3: for a non-empty group of n runs and p in 0..100, getNthPercentileDuration(p)
\* is the element at index min(floor(p/100 * n), n-1) of the ascending durations
\* (so p = 0 gives the minimum, p = 100 the maximum, never undefined).
C3_NthPercentile ==
    asked.kind = "nth" =>
        AtAscendingIndex(group, answer,
                         Min((asked.arg * Len(group)) \div 100, Len(group) - 1))

\* C4: whatever the groups are (none at all, no success group, no failure group),
\* assembling the report raises nothing and queries no missing or empty group; a
\* section whose group is absent is simply not emitted.
C4_MissingGroupsGuarded ==
    /\ chain # "thrown"
    /\ \A i \in 1..Len(queries) :
          HasKey(groupedRuns, queries[i].status) /\ queries[i].size > 0
    /\ \A i \in 1..Len(sink) :
          sink[i].section \in {"success", "failure"} => HasKey(groupedRuns, sink[i].section)

\* C5: whatever the statuses and conclusions of the raw entries, none of in_progress,
\* queued, requested, waiting, pending is a key of the Map getWorkflowRuns returns.
C5_NoNonTerminalKeys == Keys(groupedRuns) \cap NonTerminal = {}

\* C6: after aggregation every retained run is in exactly one group, the one keyed
\* by its status; no group is empty; the group sizes add up to the number of
\* retained runs, which is the total the heading reports.
C6_GroupsPartitionRuns ==
    Settled =>
        /\ \A i \in 1..Len(workflowRuns) :
              /\ Cardinality({gj \in {<<g, j>> : g \in 1..Len(groupedRuns), j \in 1..MaxEntries + 1} :
                                 /\ gj[2] <= Len(groupedRuns[gj[1]].runs)
                                 /\ groupedRuns[gj[1]].runs[gj[2]] = workflowRuns[i]}) = 1
              /\ \A g \in 1..Len(groupedRuns) :
                    workflowRuns[i] \in Range(groupedRuns[g].runs)
                        => groupedRuns[g].status = workflowRuns[i].status
        /\ \A g, h \in 1..Len(groupedRuns) :
              groupedRuns[g].status = groupedRuns[h].status => g = h
        /\ \A g \in 1..Len(groupedRuns) : groupedRuns[g].runs # <<>>
        /\ {workflowRuns[i].id : i \in 1..Len(workflowRuns)} = RetainedIds
        /\ GroupedIds = RetainedIds
        /\ TotalRuns(groupedRuns) = Cardinality(RetainedIds)
        /\ \A i \in 1..Len(sink) :
              (sink[i].op = "addHeading" /\ sink[i].section = "total")
                  => sink[i].nums = <<Cardinality(RetainedIds)>>

C6_Witness ==
    /\ chain = "written"
    /\ Len(groupedRuns) >= 2
    /\ \E g \in 1..Len(groupedRuns) : Len(groupedRuns[g].runs) >= 2

\* C7: if fetching a page fails, getWorkflowRuns does not throw: the error is logged
\* and the groups hold exactly the retained runs of the pages before it; the report
\* is still assembled and written from them.
C7_PartialReport ==
    errorLogged =>
        /\ Settled
        /\ GroupedIds = RetainedIds
        /\ chain # "thrown"

\* C8: in a run that produces a report the sections reach the sink in the order
\* total heading, success-rate heading, success heading and table, failure heading
\* and table, breakdown heading and table, each exactly when its condition holds;
\* write is called once, after all of them, and nothing follows it.
C8_SectionOrder ==
    /\ chain = "written" => Tags(ReportCalls) = SelectSeq(SectionOrder, SectionDue)
    /\ \A i \in 1..Len(sink) : sink[i].op = "write" => (i = Len(sink) /\ chain = "written")

C8_Witness ==
    /\ chain = "written"
    /\ HasKey(groupedRuns, "success")
    /\ ~HasKey(groupedRuns, "failure")
    /\ Len(groupedRuns) >= 2

\* C9: when the total is positive the breakdown table has one row per status, in
\* the order the groups were created, whose percentage is ceil(size/total * 100);
\* the percentages add up to between 100 - k and 100 + k for k statuses.
C9_BreakdownCeil ==
    \A i \in 1..Len(sink) :
        (sink[i].op = "addTable" /\ sink[i].section = "breakdown") =>
            LET rows == sink[i].rows
                k == Len(groupedRuns)
                total == TotalRuns(groupedRuns)
            IN  /\ Len(rows) = k
                /\ \A r \in 1..k :
                      /\ rows[r].status = groupedRuns[r].status
                      /\ rows[r].num =
                            rows[r].den * CeilDiv(Len(groupedRuns[r].runs) * 100, total)
                      /\ rows[r].den = rows[1].den
                /\ (100 - k) * rows[1].den <= SumOf([r \in 1..k |-> rows[r].num], k)
                /\ SumOf([r \in 1..k |-> rows[r].num], k) <= (100 + k) * rows[1].den

\* C10: the promise summarizeHistory returns settles only after write was called,
\* and an error raised while the runs are fetched or the report is assembled
\* rejects that promise.
C10_SettlesAfterReport ==
    /\ pc = "returned" => chain = "written"
    /\ chain = "thrown" => pc = "rejected"

====
